---------------------------- MODULE Spec2Model ----------------------------
(***************************************************************************)
(* Model of the Letta <-> AI SDK message converters.                       *)
(*                                                                         *)
(*   convertToAiSdkMessage  (inbound: platform events -> UI messages)      *)
(*   convertToLettaMessage  (outbound: prompt -> platform request)         *)
(*                                                                         *)
(* Each converter is a loop over its input; one action is one run of the   *)
(* loop's callback.  JavaScript values are encoded as records of one fixed *)
(* shape so that values of different JavaScript types stay comparable.     *)
(*                                                                         *)
(* The accumulator of convertToAiSdkMessage is an object literal, so the   *)
(* callback reaches the objects of Object.prototype through some ids; what *)
(* it writes there belongs to the realm and is kept from call to call.     *)
(* Whether the module runs as strict code depends on the build, and both   *)
(* are modelled.                                                           *)
(***************************************************************************)
EXTENDS Integers, Sequences, FiniteSets, TLC

VARIABLES
    messages,       \* convertToAiSdkMessage: the `messages` argument
    options,        \* convertToAiSdkMessage: the `options` argument as passed
    idx,            \* index of the next element forEach hands to the callback
    sdkMessageObj,  \* own properties of the accumulator object: id -> UIMessage
    created,        \* own string keys of sdkMessageObj in creation order
    inherited,      \* the realm: the objects reached through Object.prototype
    entered,        \* the realm as it was on entry to the current call
    calls,          \* number of calls of convertToAiSdkMessage so far
    status,         \* "scanning" | "returned" | "thrown"
    result,         \* the returned UIMessage[] (meaningful when returned)
    error,          \* the message of the thrown Error (meaningful when thrown)
    prompt,         \* convertToLettaMessage: the `prompt` argument
    pidx,           \* index of the next element map hands to the callback
    mapped,         \* elements map has produced so far
    lstatus,        \* "mapping" | "returned" | "thrown"
    lresult,        \* the returned MessageCreate[] (meaningful when returned)
    lerror          \* the message of the thrown Error (meaningful when thrown)

aiVars == <<messages, options, idx, sdkMessageObj, created, inherited,
            entered, calls, status, result, error>>
lettaVars == <<prompt, pidx, mapped, lstatus, lresult, lerror>>
vars == <<aiVars, lettaVars>>

---------------------------------------------------------------------------
(* Bounds of the model.                                                    *)

MaxEvents == 3      \* longest `messages` array of plain messages
MaxCalls == 2       \* calls of convertToAiSdkMessage in one realm
MaxFragments == 2   \* longest content array of an event or prompt message
MaxPrompt == 3      \* longest prompt of plain messages

---------------------------------------------------------------------------
(* JavaScript values.  t is the typeof-like tag; s, n carry a string or a  *)
(* number payload; an object has at most one own property k, whose value   *)
(* is the string s (vt = "string") or the number n (vt = "number"); an     *)
(* array has the elements a.                                               *)

JsVal(t, s, n, k, vt, a) ==
    [t |-> t, s |-> s, n |-> n, k |-> k, vt |-> vt, a |-> a]
Undefined == JsVal("undefined", "", 0, "", "", <<>>)
Null == JsVal("null", "", 0, "", "", <<>>)
Str(s) == JsVal("string", s, 0, "", "", <<>>)
Num(n) == JsVal("number", "", n, "", "", <<>>)
Bool(b) == JsVal("boolean", "", IF b THEN 1 ELSE 0, "", "", <<>>)
EmptyObject == JsVal("object", "", 0, "", "", <<>>)
ObjStr(k, s) == JsVal("object", s, 0, k, "string", <<>>)
ObjNum(k, n) == JsVal("object", "", n, k, "number", <<>>)
Arr(a) == JsVal("array", "", 0, "", "", a)

\* Array.isArray(v)
IsArray(v) == v.t = "array"

\* typeof v === "string"
IsString(v) == v.t = "string"

\* v.key for a non-nullish v (a primitive has no such property)
Get(v, key) ==
    IF v.t = "object" /\ v.k = key /\ v.vt = "string" THEN Str(v.s)
    ELSE IF v.t = "object" /\ v.k = key /\ v.vt = "number" THEN Num(v.n)
    ELSE Undefined

\* v?.key
OptGet(v, key) == IF v.t \in {"undefined", "null"} THEN Undefined ELSE Get(v, key)

\* a ?? b
Coalesce(a, b) == IF a.t \in {"undefined", "null"} THEN b ELSE a

\* !!v
Truthy(v) ==
    CASE v.t \in {"undefined", "null"} -> FALSE
      [] v.t = "string" -> v.s # ""
      [] v.t = "number" -> v.n # 0
      [] v.t = "boolean" -> v.n = 1
      [] OTHER -> TRUE

\* a || b
OrElse(a, b) == IF Truthy(a) THEN a ELSE b

\* String(v), also the conversion a template literal applies (v is no array)
ToStringJs(v) ==
    CASE v.t = "undefined" -> "undefined"
      [] v.t = "null" -> "null"
      [] v.t = "string" -> v.s
      [] v.t = "number" -> ToString(v.n)
      [] v.t = "boolean" -> (IF v.n = 1 THEN "true" ELSE "false")
      [] OTHER -> "[object Object]"

\* JSON.stringify(v): a string, or undefined for undefined (the strings
\* here need no escapes; the arrays here are empty)
JSONStringify(v) ==
    CASE v.t = "undefined" -> Undefined
      [] v.t = "null" -> Str("null")
      [] v.t = "string" -> Str("\"" \o v.s \o "\"")
      [] v.t = "number" -> Str(ToString(v.n))
      [] v.t = "boolean" -> Str(IF v.n = 1 THEN "true" ELSE "false")
      [] v.t = "object" /\ v.vt = "string" ->
            Str("{\"" \o v.k \o "\":\"" \o v.s \o "\"}")
      [] v.t = "object" /\ v.vt = "number" ->
            Str("{\"" \o v.k \o "\":" \o ToString(v.n) \o "}")
      [] v.t = "array" -> Str("[]")
      [] OTHER -> Str("{}")

\* s.startsWith(p)
StartsWith(s, p) == Len(s) >= Len(p) /\ SubSeq(s, 1, Len(p)) = p

Pad2(n) == IF n < 10 THEN "0" \o ToString(n) ELSE ToString(n)
Pad3(n) == IF n < 10 THEN "00" \o ToString(n)
           ELSE IF n < 100 THEN "0" \o ToString(n) ELSE ToString(n)

\* Date.prototype.toISOString for a time value (ms since the epoch) of
\* 1970-01-01
ToISOString(ms) ==
    "1970-01-01T" \o Pad2(ms \div 3600000) \o ":"
        \o Pad2((ms \div 60000) % 60) \o ":"
        \o Pad2((ms \div 1000) % 60) \o "."
        \o Pad3(ms % 1000) \o "Z"

---------------------------------------------------------------------------
(* convertToAiSdkMessage: data.                                            *)

\* baseOptions.allowMessageTypes
BaseAllowMessageTypes ==
    {"user_message", "assistant_message", "system_message",
     "tool_call_message", "tool_return_message", "reasoning_message"}

\* The `options` argument: absent (the parameter default applies), or an
\* object whose allowMessageTypes is unset or an array of message types.
NoOptions == [given |-> FALSE, hasAllow |-> FALSE, allowMessageTypes |-> {}]
OptionsUnset == [given |-> TRUE, hasAllow |-> FALSE, allowMessageTypes |-> {}]
OptionsAllow(S) == [given |-> TRUE, hasAllow |-> TRUE, allowMessageTypes |-> S]

\* allowMessageTypeSet: `options = baseOptions` applies to an absent
\* argument only, and `options.allowMessageTypes || []` makes an unset
\* list the empty set.
AllowMessageTypeSet(o) ==
    IF ~o.given THEN BaseAllowMessageTypes
    ELSE IF o.hasAllow THEN o.allowMessageTypes
    ELSE {}

\* A content fragment of a user or assistant message.
Fragment(type, text, imageUrl, inputAudio) ==
    [type |-> type, text |-> text, imageUrl |-> imageUrl,
     inputAudio |-> inputAudio]

\* UI parts.
TextUIPart(text) == [type |-> "text", text |-> text]
FileUIPart(url, mediaType) == [type |-> "file", url |-> url, mediaType |-> mediaType]

\* The outcome of a call that may throw.
Returned(v) == [threw |-> FALSE, value |-> v, error |-> ""]
Threw(msg) == [threw |-> TRUE, value |-> <<>>, error |-> msg]

\* a loop body that drops a fragment of an unsupported type as it drops a
\* fragment without a URL
FragmentPartsLenient(val) ==
    IF val.type = Str("text") THEN Returned(<<TextUIPart(val.text)>>)
    ELSE IF val.type = Str("image_url") THEN
        LET url == Coalesce(OptGet(val.imageUrl, "url"), val.imageUrl)
        IN  Returned(IF IsString(url) THEN <<FileUIPart(url, "image/*")>> ELSE <<>>)
    ELSE IF val.type = Str("input_audio") THEN
        LET url == Coalesce(OptGet(val.inputAudio, "url"), Undefined)
        IN  Returned(IF IsString(url) THEN <<FileUIPart(url, "audio/*")>> ELSE <<>>)
    ELSE Returned(<<>>)

\* One iteration of transformMessageContent's loop: the parts pushed for
\* `val`, or the throw.
FragmentParts(val) ==
    IF val.type = Str("text") THEN Returned(<<TextUIPart(val.text)>>)
    ELSE IF val.type = Str("image_url") THEN
        LET url == Coalesce(OptGet(val.imageUrl, "url"), val.imageUrl)
        IN  Returned(IF IsString(url) THEN <<FileUIPart(url, "image/*")>> ELSE <<>>)
    ELSE IF val.type = Str("input_audio") THEN
        LET url == Coalesce(OptGet(val.inputAudio, "url"), Undefined)
        IN  Returned(IF IsString(url) THEN <<FileUIPart(url, "audio/*")>> ELSE <<>>)
    ELSE Threw("Content type " \o ToStringJs(val.type) \o " not supported")

RECURSIVE TransformFragments(_, _)
\* The loop of transformMessageContent over content[i..], `parts` pushed so far.
TransformFragments(rest, parts) ==
    IF rest = <<>> THEN Returned(parts)
    ELSE LET r == FragmentParts(Head(rest))
         IN  IF r.threw THEN r
             ELSE TransformFragments(Tail(rest), parts \o r.value)

transformMessageContent(content) ==
    IF IsArray(content) THEN TransformFragments(content.a, <<>>)
    ELSE Returned(<<TextUIPart(content)>>)

---------------------------------------------------------------------------
(* convertToAiSdkMessage: the accumulator object.                          *)

\* The function-valued properties every object literal inherits from
\* Object.prototype.
FunctionKeys ==
    {"constructor", "hasOwnProperty", "isPrototypeOf", "propertyIsEnumerable",
     "toLocaleString", "toString", "valueOf", "__defineGetter__",
     "__defineSetter__", "__lookupGetter__", "__lookupSetter__"}

\* The keys for which sdkMessageObj[key] is truthy although the object has
\* no such own property: the functions, and __proto__, which is
\* Object.prototype itself.
InheritedKeys == FunctionKeys \cup {"__proto__"}

\* What the callback can have written on an object it reaches through
\* Object.prototype: the property `role` ("" when not set), whether the
\* object has a property `parts` of its own, that array, and the property
\* `role` written on that array ("" when not set).
RealmObject(role, hasParts, parts, partsRole) ==
    [role |-> role, hasParts |-> hasParts, parts |-> parts, partsRole |-> partsRole]

Untouched == RealmObject("", FALSE, <<>>, "")

\* The realm the code runs in: whether the build runs the module as strict
\* code, and the objects reached through Object.prototype.  It outlives
\* the call.
Realm(strict, objects) == [strict |-> strict, objects |-> objects]

\* the realm before any call
FreshRealm(strict) == Realm(strict, [k \in InheritedKeys |-> Untouched])

\* Object.prototype
ObjectPrototype(realm) == realm.objects["__proto__"]

\* What sdkMessageObj[id] evaluates to: an own property (a builder), an
\* inherited function, Object.prototype, the string or the array an
\* earlier write left on Object.prototype as `role` or `parts`, or
\* undefined.
Resolve(acc, id) ==
    IF id \in DOMAIN acc.obj THEN "own"
    ELSE IF id \in FunctionKeys THEN "function"
    ELSE IF id = "__proto__" THEN "prototype"
    ELSE IF id = "role" /\ ObjectPrototype(acc.inh).role # "" THEN "string"
    ELSE IF id = "parts" /\ ObjectPrototype(acc.inh).hasParts THEN "array"
    ELSE "undefined"

\* !!sdkMessageObj[id]
HasProperty(acc, id) == Resolve(acc, id) # "undefined"

NewBuilder(id) == [role |-> "assistant", id |-> id, parts |-> <<>>]

\* sdkMessageObj after `if (!sdkMessageObj[id]) sdkMessageObj[id] = {...}`
WithBuilder(acc, id) ==
    IF HasProperty(acc, id) THEN acc.obj ELSE acc.obj @@ (id :> NewBuilder(id))

\* the own keys in creation order after the same statement
CreatedWith(acc, id) ==
    IF HasProperty(acc, id) THEN acc.crt ELSE Append(acc.crt, id)

\* a role that only the first event of an id decides
SetRoleOnce(target, role) ==
    IF target.parts = <<>> THEN [target EXCEPT !.role = role] ELSE target

\* target.role = role
SetRole(target, role) == [target EXCEPT !.role = role]

\* target.parts.push(...parts)
PushParts(target, parts) == [target EXCEPT !.parts = @ \o parts]

DigitValue ==
    ("0" :> 0) @@ ("1" :> 1) @@ ("2" :> 2) @@ ("3" :> 3) @@ ("4" :> 4) @@
    ("5" :> 5) @@ ("6" :> 6) @@ ("7" :> 7) @@ ("8" :> 8) @@ ("9" :> 9)

RECURSIVE DigitsLess(_, _)
\* a < b for two strings of decimal digits of the same length
DigitsLess(a, b) ==
    /\ Len(a) > 0
    /\ LET x == DigitValue[SubSeq(a, 1, 1)]
           y == DigitValue[SubSeq(b, 1, 1)]
       IN  \/ x < y
           \/ x = y /\ DigitsLess(SubSeq(a, 2, Len(a)), SubSeq(b, 2, Len(b)))

\* a <= b as numbers, for two canonical decimal strings
NumericLeq(a, b) ==
    \/ Len(a) < Len(b)
    \/ Len(a) = Len(b) /\ (a = b \/ DigitsLess(a, b))

\* Whether a property key is an array index: the canonical decimal string
\* of an integer in 0 .. 2^32 - 2.
IsArrayIndex(key) ==
    /\ Len(key) \in 1..10
    /\ \A i \in 1..Len(key) : SubSeq(key, i, i) \in DOMAIN DigitValue
    /\ (Len(key) > 1 => SubSeq(key, 1, 1) # "0")
    /\ NumericLeq(key, "4294967294")

RECURSIVE AscendingIndexKeys(_)
\* the array-index keys in ascending numeric order
AscendingIndexKeys(keys) ==
    IF keys = {} THEN <<>>
    ELSE LET least == CHOOSE k \in keys : \A other \in keys : NumericLeq(k, other)
         IN  <<least>> \o AscendingIndexKeys(keys \ {least})

\* the elements of seq that are in keep, in order
RECURSIVE SelectKeys(_, _)
SelectKeys(seq, keep) ==
    IF seq = <<>> THEN <<>>
    ELSE (IF Head(seq) \in keep THEN <<Head(seq)>> ELSE <<>>)
            \o SelectKeys(Tail(seq), keep)

\* The own property keys of an ordinary object in enumeration order:
\* array indices ascending, then the other strings in creation order.
OwnPropertyKeys(crt) ==
    LET all == {crt[i] : i \in 1..Len(crt)}
        indices == {k \in all : IsArrayIndex(k)}
    IN  AscendingIndexKeys(indices) \o SelectKeys(crt, all \ indices)

\* Object.values(sdkMessageObj)
ObjectValues(obj, crt) ==
    LET keys == OwnPropertyKeys(crt)
    IN  [i \in 1..Len(keys) |-> obj[keys[i]]]

---------------------------------------------------------------------------
(* convertToAiSdkMessage: the parts each message type contributes.         *)

\* The `toolCall` property of a tool_call_message.
NoToolCall == [present |-> FALSE, name |-> Undefined,
               toolCallId |-> Undefined, arguments |-> Undefined]
ToolCall(name, toolCallId, arguments) ==
    [present |-> TRUE, name |-> name, toolCallId |-> toolCallId,
     arguments |-> arguments]

\* message.toolCall?.key
ToolCallGet(tc, key) ==
    IF ~tc.present THEN Undefined
    ELSE CASE key = "name" -> tc.name
           [] key = "toolCallId" -> tc.toolCallId
           [] OTHER -> tc.arguments

\* providerMetadata.letta of a reasoning part
ReasoningMetadata(message) ==
    [id |-> message.id,
     date |-> ToISOString(message.date),
     name |-> Coalesce(message.name, Null),
     messageType |-> message.messageType,
     otid |-> Coalesce(message.otid, Null),
     senderId |-> Coalesce(message.senderId, Null),
     stepId |-> Coalesce(message.stepId, Null),
     isErr |-> Coalesce(message.isErr, Null),
     seqId |-> Coalesce(message.seqId, Null),
     runId |-> Coalesce(message.runId, Null),
     reasoning |-> message.reasoning,
     source |-> Coalesce(message.source, Null)]

\* callProviderMetadata.letta of a tool-return part
ToolReturnMetadata(message) ==
    [id |-> message.id,
     date |-> ToISOString(message.date),
     name |-> Coalesce(message.name, Null),
     messageType |-> message.messageType,
     otid |-> Coalesce(message.otid, Null),
     senderId |-> Coalesce(message.senderId, Null),
     stepId |-> Coalesce(message.stepId, Null),
     isErr |-> Coalesce(message.isErr, Null),
     seqId |-> Coalesce(message.seqId, Null),
     runId |-> Coalesce(message.runId, Null),
     toolReturn |-> message.toolReturn,
     status |-> message.status,
     toolCallId |-> message.toolCallId,
     stdout |-> Coalesce(message.stdout, Null),
     stderr |-> Coalesce(message.stderr, Null)]

ReasoningPart(message) ==
    [type |-> "reasoning",
     text |-> message.reasoning,
     providerMetadata |-> [letta |-> ReasoningMetadata(message)]]

ToolCallPart(message) ==
    [type |-> "tool-" \o ToStringJs(OrElse(ToolCallGet(message.toolCall, "name"), Str(""))),
     toolCallId |-> OrElse(ToolCallGet(message.toolCall, "toolCallId"), Str("")),
     state |-> "output-available",
     input |-> OrElse(ToolCallGet(message.toolCall, "arguments"), EmptyObject),
     output |-> Str("")]

\* state of a tool-return part
ToolReturnState(message) ==
    IF message.status = Str("error") THEN "output-error" ELSE "output-available"

\* an errorText made with String(...) in place of JSON.stringify(...)
ToolReturnErrorTextByString(message) ==
    IF message.status = Str("error") THEN Str(ToStringJs(message.toolReturn))
    ELSE Undefined

\* errorText of a tool-return part
ToolReturnErrorText(message) ==
    IF message.status = Str("error")
    THEN (IF IsString(message.toolReturn) THEN message.toolReturn
          ELSE JSONStringify(message.toolReturn))
    ELSE Undefined

ToolReturnPart(message) ==
    [type |-> "tool-" \o ToStringJs(OrElse(message.name, Str(""))),
     toolCallId |-> OrElse(message.toolCallId, Str("")),
     state |-> ToolReturnState(message),
     input |-> EmptyObject,
     output |-> message.toolReturn,
     errorText |-> ToolReturnErrorText(message),
     callProviderMetadata |-> [letta |-> ToolReturnMetadata(message)]]

---------------------------------------------------------------------------
(* convertToAiSdkMessage: the forEach callback as a function of the        *)
(* accumulator.  The accumulator is the object sdkMessageObj (obj), its    *)
(* own keys in creation order (crt), and the realm (inh).                  *)

Accumulator(obj, crt, inh) == [obj |-> obj, crt |-> crt, inh |-> inh]

\* `const sdkMessageObj = {}` in a given realm
EmptyAccumulator(realm) == Accumulator(<<>>, <<>>, realm)

\* a statement that completed, and one that threw
Completed(acc) == [threw |-> FALSE, error |-> "", acc |-> acc]
Aborted(acc, msg) == [threw |-> TRUE, error |-> msg, acc |-> acc]

\* the TypeError of strict code for an assignment to a property of a
\* string, and the one for `undefined.push`
CannotCreateProperty(name, str) ==
    "Cannot create property '" \o name \o "' on string '" \o str \o "'"
CannotReadPush == "Cannot read properties of undefined (reading 'push')"

\* `if (!sdkMessageObj[message.id]) sdkMessageObj[message.id] = {...}`
EnsureBuilder(acc, id) ==
    Accumulator(WithBuilder(acc, id), CreatedWith(acc, id), acc.inh)

\* `sdkMessageObj[id].role = role`: the object written is the builder, the
\* inherited function, Object.prototype, or the array Object.prototype
\* holds as `parts`; on the string Object.prototype holds as `role` the
\* assignment throws in strict code and does nothing otherwise
RoleSet(acc, id, role) ==
    LET kind == Resolve(acc, id)
    IN  CASE kind = "own" -> Completed([acc EXCEPT !.obj[id] = SetRole(@, role)])
          [] kind \in {"function", "prototype"} ->
                Completed([acc EXCEPT !.inh.objects[id] = SetRole(@, role)])
          [] kind = "array" ->
                Completed([acc EXCEPT !.inh.objects["__proto__"].partsRole = role])
          [] OTHER ->
                IF acc.inh.strict
                THEN Aborted(acc, CannotCreateProperty("role",
                                        ObjectPrototype(acc.inh).role))
                ELSE Completed(acc)

\* `if (!sdkMessageObj[id].parts) sdkMessageObj[id].parts = []`: a function
\* or a string without `parts` of its own reads the `parts` of
\* Object.prototype, and the array Object.prototype holds as `parts` reads
\* itself
PartsEnsured(acc, id) ==
    LET kind == Resolve(acc, id)
        proto == ObjectPrototype(acc.inh)
    IN  CASE kind \in {"own", "array"} -> Completed(acc)
          [] kind = "function" ->
                IF acc.inh.objects[id].hasParts \/ proto.hasParts THEN Completed(acc)
                ELSE Completed([acc EXCEPT !.inh.objects[id].hasParts = TRUE])
          [] kind = "prototype" ->
                Completed([acc EXCEPT !.inh.objects[id].hasParts = TRUE])
          [] OTHER ->
                IF proto.hasParts \/ ~acc.inh.strict THEN Completed(acc)
                ELSE Aborted(acc, CannotCreateProperty("parts", proto.role))

\* `sdkMessageObj[id].parts.push(...)`
PartsPushed(acc, id, parts) ==
    LET kind == Resolve(acc, id)
        proto == ObjectPrototype(acc.inh)
        onPrototype == [acc EXCEPT !.inh.objects["__proto__"] = PushParts(@, parts)]
    IN  CASE kind = "own" -> Completed([acc EXCEPT !.obj[id] = PushParts(@, parts)])
          [] kind = "function" ->
                IF acc.inh.objects[id].hasParts
                THEN Completed([acc EXCEPT !.inh.objects[id] = PushParts(@, parts)])
                ELSE Completed(onPrototype)
          [] kind \in {"prototype", "array"} -> Completed(onPrototype)
          [] OTHER ->
                IF proto.hasParts THEN Completed(onPrototype)
                ELSE Aborted(acc, CannotReadPush)

\* a filter that lets every message through
PassesFilterAlways(message, allow) == message.messageType = message.messageType

\* `allowMessageTypeSet.has(message.messageType)`
PassesFilter(message, allow) == message.messageType \in allow

\* The role a message's branch assigns and the parts it pushes (or the
\* throw of transformMessageContent).
Contribution(message) ==
    CASE message.messageType = "system_message" ->
            [role |-> "system", parts |-> Returned(<<TextUIPart(message.content)>>)]
      [] message.messageType = "user_message" ->
            [role |-> "user", parts |-> transformMessageContent(message.content)]
      [] message.messageType = "assistant_message" ->
            [role |-> "assistant", parts |-> transformMessageContent(message.content)]
      [] message.messageType = "reasoning_message" ->
            [role |-> "assistant", parts |-> Returned(<<ReasoningPart(message)>>)]
      [] message.messageType = "tool_call_message" ->
            [role |-> "assistant", parts |-> Returned(<<ToolCallPart(message)>>)]
      [] message.messageType = "tool_return_message" ->
            [role |-> "assistant", parts |-> Returned(<<ToolReturnPart(message)>>)]

\* the branches that assign the role before they look at the parts
RoleFirstTypes == {"system_message", "user_message", "assistant_message"}

\* One run of the callback on a message that passes the filter: the
\* accumulator it leaves, and whether it threw.  The system, user and
\* assistant branches assign the role, compute the parts (which may
\* throw), make sure of the `parts` array and push; the reasoning and tool
\* branches make sure of the `parts` array, assign the role and push.
ProcessMessage(acc, message) ==
    LET id == message.id
        c == Contribution(message)
        builder == EnsureBuilder(acc, id)
    IN  IF message.messageType \in RoleFirstTypes
        THEN LET withRole == RoleSet(builder, id, c.role)
                 ensured == PartsEnsured(withRole.acc, id)
             IN  IF withRole.threw THEN withRole
                 ELSE IF c.parts.threw THEN Aborted(withRole.acc, c.parts.error)
                 ELSE IF ensured.threw THEN ensured
                 ELSE PartsPushed(ensured.acc, id, c.parts.value)
        ELSE LET ensured == PartsEnsured(builder, id)
                 withRole == RoleSet(ensured.acc, id, c.role)
             IN  IF ensured.threw THEN ensured
                 ELSE IF withRole.threw THEN withRole
                 ELSE PartsPushed(withRole.acc, id, c.parts.value)

RECURSIVE ForEach(_, _, _)
\* messages.forEach over the elements left
ForEach(rest, allow, acc) ==
    IF rest = <<>> THEN Completed(acc)
    ELSE IF ~PassesFilter(Head(rest), allow) THEN ForEach(Tail(rest), allow, acc)
    ELSE LET r == ProcessMessage(acc, Head(rest))
         IN  IF r.threw THEN r ELSE ForEach(Tail(rest), allow, r.acc)

\* The whole call in a given realm: the returned array, or the throw.
convertToAiSdkMessage(ms, o, realm) ==
    LET r == ForEach(ms, AllowMessageTypeSet(o), EmptyAccumulator(realm))
    IN  IF r.threw THEN Threw(r.error)
        ELSE Returned(ObjectValues(r.acc.obj, r.acc.crt))

---------------------------------------------------------------------------
(* convertToAiSdkMessage step by step: one action per run of the forEach   *)
(* callback, by the branch it takes, and the return.                       *)

\* the callback is run on messages[idx], of the given type
AtMessage(type) ==
    /\ status = "scanning"
    /\ idx <= Len(messages)
    /\ messages[idx].messageType = type

\* the callback's `return` on a message the filter rejects
SkipMessage ==
    /\ status = "scanning"
    /\ idx <= Len(messages)
    /\ ~PassesFilter(messages[idx], AllowMessageTypeSet(options))
    /\ idx' = idx + 1
    /\ UNCHANGED <<messages, options, sdkMessageObj, created, inherited,
                   entered, calls, status, result, error, lettaVars>>

\* the callback's run on a message the filter passes
Callback ==
    /\ PassesFilter(messages[idx], AllowMessageTypeSet(options))
    /\ \E r \in {ProcessMessage(Accumulator(sdkMessageObj, created, inherited),
                                  messages[idx])} :
           /\ sdkMessageObj' = r.acc.obj
           /\ created' = r.acc.crt
           /\ inherited' = r.acc.inh
           /\ IF r.threw
              THEN status' = "thrown" /\ error' = r.error /\ UNCHANGED idx
              ELSE idx' = idx + 1 /\ UNCHANGED <<status, error>>
    /\ UNCHANGED <<messages, options, entered, calls, result, lettaVars>>

SystemMessage == AtMessage("system_message") /\ Callback

UserMessage == AtMessage("user_message") /\ Callback

AssistantMessage == AtMessage("assistant_message") /\ Callback

ReasoningMessage == AtMessage("reasoning_message") /\ Callback

ToolCallMessage == AtMessage("tool_call_message") /\ Callback

ToolReturnMessage == AtMessage("tool_return_message") /\ Callback

\* return Object.values(sdkMessageObj)
ReturnValues ==
    /\ status = "scanning"
    /\ idx > Len(messages)
    /\ result' = ObjectValues(sdkMessageObj, created)
    /\ status' = "returned"
    /\ UNCHANGED <<messages, options, idx, sdkMessageObj, created, inherited,
                   entered, calls, error, lettaVars>>

---------------------------------------------------------------------------
(* convertToAiSdkMessage: the inputs explored.                             *)

\* Ids: ordinary strings, strings that are array indices, and a key every
\* object inherits.
Ids == {"a", "2", "10", "constructor"}

\* Ids that reach Object.prototype and what a write on it leaves, and
\* another inherited function.
RealmIds == {"__proto__", "role", "parts", "__lookupGetter__"}

\* A message with every optional field absent.
BlankMessage(id, type, date) ==
    [id |-> id, messageType |-> type, date |-> date,
     content |-> Undefined, reasoning |-> Undefined, toolCall |-> NoToolCall,
     toolCallId |-> Undefined, name |-> Undefined, toolReturn |-> Undefined,
     status |-> Undefined, otid |-> Undefined, senderId |-> Undefined,
     stepId |-> Undefined, isErr |-> Undefined, seqId |-> Undefined,
     runId |-> Undefined, source |-> Undefined, stdout |-> Undefined,
     stderr |-> Undefined]

\* The same message with its provenance fields present.
WithProvenance(m) ==
    [m EXCEPT !.name = Str("search"), !.otid = Str("o1"), !.senderId = Str("s1"),
              !.stepId = Str("p1"), !.isErr = Bool(FALSE), !.seqId = Num(4),
              !.runId = Str("r1"), !.source = Str("reasoner_model"),
              !.stdout = Str("out"), !.stderr = Str("err")]

\* A plain message of each type whose payload names its position k in the
\* input, so that the parts of two messages are told apart.
PlainMessage(id, type, k) ==
    LET label == Str("t" \o ToString(k))
        m == BlankMessage(id, type, k)
    IN  CASE type = "system_message" -> [m EXCEPT !.content = label]
          [] type = "user_message" -> [m EXCEPT !.content = label]
          [] type = "assistant_message" -> [m EXCEPT !.content = label]
          [] type = "reasoning_message" -> [m EXCEPT !.reasoning = label]
          [] type = "tool_call_message" ->
                [m EXCEPT !.toolCall = ToolCall(Str("search"), label, Str("{}"))]
          [] OTHER ->
                [m EXCEPT !.name = Str("search"), !.toolCallId = label,
                          !.toolReturn = label, !.status = Str("success")]

GroupingOptions == {NoOptions, OptionsUnset, OptionsAllow({"user_message"})}

\* The fragment of an unsupported type.
UnknownFragment == Fragment(Str("unknown_kind"), Undefined, Undefined, Undefined)

\* Content fragments: every way the three supported types resolve, and an
\* unsupported type.
Fragments ==
    {Fragment(Str("text"), Str("x"), Undefined, Undefined),
     Fragment(Str("image_url"), Undefined, ObjStr("url", "u"), Undefined),
     Fragment(Str("image_url"), Undefined, Str("u"), Undefined),
     Fragment(Str("image_url"), Undefined, Undefined, Undefined),
     Fragment(Str("image_url"), Undefined, EmptyObject, Undefined),
     Fragment(Str("input_audio"), Undefined, Undefined, ObjStr("url", "v")),
     Fragment(Str("input_audio"), Undefined, Undefined, Undefined),
     UnknownFragment}

SeqsUpTo(S, n) == UNION {[1..m -> S] : m \in 0..n}

Contents == {Str("hello")} \cup {Arr(fs) : fs \in SeqsUpTo(Fragments, MaxFragments)}

ToolReturnValues ==
    {Str("boom"), Str(""), ObjNum("code", 7), ObjStr("msg", "x"), EmptyObject,
     Num(7), Bool(FALSE), Null}

ToolCalls ==
    {NoToolCall, ToolCall(Str("search"), Str("c1"), Str("{}")),
     ToolCall(Undefined, Undefined, Undefined), ToolCall(Str(""), Str(""), Str(""))}

\* Messages with every payload shape of their type, at position k.
RichMessages(k) ==
    {[BlankMessage("a", type, k) EXCEPT !.content = c] :
        type \in {"user_message", "assistant_message"}, c \in Contents}
    \cup
    {[m EXCEPT !.toolReturn = v, !.status = st, !.toolCallId = Str("c1")] :
        m \in {BlankMessage("a", "tool_return_message", k),
               WithProvenance(BlankMessage("a", "tool_return_message", k))},
        v \in ToolReturnValues, st \in {Str("success"), Str("error"), Undefined}}
    \cup
    {[m EXCEPT !.reasoning = Str("why")] :
        m \in {BlankMessage("a", "reasoning_message", k),
               WithProvenance(BlankMessage("a", "reasoning_message", k))}}
    \cup
    {[BlankMessage("a", "tool_call_message", k) EXCEPT !.toolCall = tc] :
        tc \in ToolCalls}

\* What may precede or follow a rich message: nothing, or one plain message.
Neighbours(k) ==
    {<<>>} \cup {<<PlainMessage("a", "user_message", k)>>,
                 <<PlainMessage("a", "reasoning_message", k)>>,
                 <<PlainMessage("b", "system_message", k)>>}

ContentOptions == {NoOptions, OptionsAllow({"assistant_message", "tool_return_message"})}

\* Short calls on the ids that reach the realm: each leaves something on
\* an inherited object, or meets what an earlier call left.
RealmCalls ==
    {<<PlainMessage("constructor", "user_message", 1)>>,
     <<PlainMessage("__proto__", "system_message", 1)>>,
     <<[BlankMessage("__proto__", "user_message", 1)
            EXCEPT !.content = Arr(<<UnknownFragment>>)]>>,
     <<PlainMessage("role", "tool_return_message", 1)>>,
     <<[BlankMessage("role", "user_message", 1)
            EXCEPT !.content = Arr(<<UnknownFragment>>)]>>,
     <<PlainMessage("role", "system_message", 1)>>,
     <<PlainMessage("parts", "reasoning_message", 1)>>,
     <<PlainMessage("a", "user_message", 1)>>}

\* The state on entry to the forEach of the first call, for given
\* arguments, in a fresh realm.
Entry(ms, o, strict) ==
    /\ messages = ms
    /\ options = o
    /\ idx = 1
    /\ sdkMessageObj = EmptyAccumulator(FreshRealm(strict)).obj
    /\ created = EmptyAccumulator(FreshRealm(strict)).crt
    /\ inherited = FreshRealm(strict)
    /\ entered = FreshRealm(strict)
    /\ calls = 1
    /\ status = "scanning"
    /\ result = <<>>
    /\ error = ""

\* A further call in the realm the calls before it left: the arguments
\* and the accumulator are new, the realm is kept.
CallAgain ==
    /\ status \in {"returned", "thrown"}
    /\ calls < MaxCalls
    /\ \E ms \in RealmCalls :
          /\ messages' = ms
          /\ options' = NoOptions
    /\ idx' = 1
    /\ sdkMessageObj' = EmptyAccumulator(inherited).obj
    /\ created' = EmptyAccumulator(inherited).crt
    /\ entered' = inherited
    /\ calls' = calls + 1
    /\ status' = "scanning"
    /\ result' = <<>>
    /\ error' = ""
    /\ UNCHANGED <<inherited, lettaVars>>

NextAiSdk ==
    \/ SkipMessage
    \/ SystemMessage
    \/ UserMessage
    \/ AssistantMessage
    \/ ReasoningMessage
    \/ ToolCallMessage
    \/ ToolReturnMessage
    \/ ReturnValues
    \/ CallAgain

LettaIdle ==
    /\ prompt = <<>>
    /\ pidx = 1
    /\ mapped = <<>>
    /\ lstatus = "returned"
    /\ lresult = <<>>
    /\ lerror = ""

\* The message types of the grouping inputs: one that sets each of the
\* roles system and user, and one that forces the assistant role.
GroupingTypes == {"system_message", "user_message", "tool_return_message"}

\* The message types of the inputs on the realm's ids: one branch that
\* assigns the role first, and one that makes sure of the parts first.
RealmTypes == {"user_message", "tool_return_message"}

\* Up to MaxEvents plain messages over every id.
InitGrouping ==
    \E n \in 0..MaxEvents : \E f \in [1..n -> Ids \X GroupingTypes] :
        \E o \in GroupingOptions, strict \in BOOLEAN :
            Entry([i \in 1..n |-> PlainMessage(f[i][1], f[i][2], i)], o, strict)

\* One rich message between plain neighbours.
InitContent ==
    \E before \in Neighbours(1), m \in RichMessages(2), after \in Neighbours(3) :
        \E o \in ContentOptions, strict \in BOOLEAN :
            Entry(before \o <<m>> \o after, o, strict)

\* Up to MaxEvents plain messages over the ids that reach the realm, or
\* one of the short calls.
InitRealm ==
    \E strict \in BOOLEAN :
        \/ \E n \in 0..MaxEvents : \E f \in [1..n -> RealmIds \X RealmTypes] :
              Entry([i \in 1..n |-> PlainMessage(f[i][1], f[i][2], i)], NoOptions, strict)
        \/ \E ms \in RealmCalls : Entry(ms, NoOptions, strict)

InitAiSdk == (InitGrouping \/ InitContent \/ InitRealm) /\ LettaIdle

SpecAiSdk == InitAiSdk /\ [][NextAiSdk]_vars

---------------------------------------------------------------------------
(* convertToLettaMessage.                                                  *)

\* A content part of a prompt message.
PromptPart(type, text) == [type |-> type, text |-> text]

\* a callback that tests for the prefix "tool" in place of "tool-"
TransformPartLoosePrefix(part) ==
    IF part.type = Str("text") THEN Returned(<<[type |-> "text", text |-> part.text]>>)
    ELSE IF IsString(part.type) /\ StartsWith(part.type.s, "tool") THEN Returned(<<>>)
    ELSE Threw("Content type " \o ToStringJs(part.type) \o " not supported")

\* One call of transformContentParts' flatMap callback: the elements it
\* contributes, or the throw.
TransformPart(part) ==
    IF part.type = Str("text") THEN Returned(<<[type |-> "text", text |-> part.text]>>)
    ELSE IF IsString(part.type) /\ StartsWith(part.type.s, "tool-") THEN Returned(<<>>)
    ELSE Threw("Content type " \o ToStringJs(part.type) \o " not supported")

RECURSIVE FlatMapParts(_, _)
\* parts.flatMap over the elements left, `out` collected so far
FlatMapParts(rest, out) ==
    IF rest = <<>> THEN Returned(out)
    ELSE LET r == TransformPart(Head(rest))
         IN  IF r.threw THEN r
             ELSE FlatMapParts(Tail(rest), out \o r.value)

transformContentParts(parts) == FlatMapParts(parts, <<>>)

MessageCreate(role, content) == [role |-> role, content |-> content]

\* the branch of a user message: its content parts transformed
ConvertUserMessage(message) ==
    LET r == transformContentParts(message.content.a)
    IN  IF r.threw THEN r ELSE Returned(MessageCreate("user", Arr(r.value)))

\* the branch of a system message: a string content, or one that is no
\* array, passes through; an array is transformed
ConvertSystemMessage(message) ==
    IF IsString(message.content) THEN
        Returned(MessageCreate("system", message.content))
    ELSE IF IsArray(message.content) THEN
        LET r == transformContentParts(message.content.a)
        IN  IF r.threw THEN r ELSE Returned(MessageCreate("system", Arr(r.value)))
    ELSE Returned(MessageCreate("system", message.content))

\* a callback that takes an assistant message as it takes a user message
ConvertPromptMessageAssistantAsUser(message) ==
    IF message.role \in {"user", "assistant"} THEN ConvertUserMessage(message)
    ELSE IF message.role = "tool" THEN Threw("Tool role is not supported")
    ELSE IF message.role = "system" THEN ConvertSystemMessage(message)
    ELSE Threw("Message role is not supported")

\* The map callback on one prompt message: the MessageCreate, or the throw.
ConvertPromptMessage(message) ==
    IF message.role = "user" THEN ConvertUserMessage(message)
    ELSE IF message.role = "assistant" THEN
        Threw("Assistant role is not supported for user input")
    ELSE IF message.role = "tool" THEN Threw("Tool role is not supported")
    ELSE IF message.role = "system" THEN ConvertSystemMessage(message)
    ELSE Threw("Message role is not supported")

\* the callback returns: map keeps the element and goes on
MapMessage ==
    /\ lstatus = "mapping"
    /\ pidx <= Len(prompt)
    /\ \E r \in {ConvertPromptMessage(prompt[pidx])} :
           /\ ~r.threw
           /\ mapped' = Append(mapped, r.value)
    /\ pidx' = pidx + 1
    /\ UNCHANGED <<prompt, lstatus, lresult, lerror, aiVars>>

\* the callback throws: the Error leaves map and convertToLettaMessage
ThrowMessage ==
    /\ lstatus = "mapping"
    /\ pidx <= Len(prompt)
    /\ \E r \in {ConvertPromptMessage(prompt[pidx])} :
           /\ r.threw
           /\ lerror' = r.error
    /\ lstatus' = "thrown"
    /\ UNCHANGED <<prompt, pidx, mapped, lresult, aiVars>>

\* map returns the array
ReturnMapped ==
    /\ lstatus = "mapping"
    /\ pidx > Len(prompt)
    /\ lresult' = mapped
    /\ lstatus' = "returned"
    /\ UNCHANGED <<prompt, pidx, mapped, lerror, aiVars>>

NextLetta ==
    \/ MapMessage
    \/ ThrowMessage
    \/ ReturnMapped

\* Content parts of a prompt: text, the tool parts of an assistant or tool
\* message, the bare prefix, a file part, a type that only resembles the
\* prefix, and a part without a type.
PromptParts ==
    {PromptPart(Str("text"), Str("hi")), PromptPart(Str("text"), Str("yo")),
     PromptPart(Str("tool-call"), Undefined), PromptPart(Str("tool-"), Undefined),
     PromptPart(Str("file"), Undefined), PromptPart(Str("tool"), Undefined),
     PromptPart(Undefined, Undefined)}

PromptMessage(role, content) == [role |-> role, content |-> content]

PlainPromptMessages ==
    {PromptMessage("user", Arr(<<PromptPart(Str("text"), Str("hi"))>>)),
     PromptMessage("user", Arr(<<PromptPart(Str("file"), Undefined)>>)),
     PromptMessage("system", Str("be brief")),
     PromptMessage("assistant", Arr(<<PromptPart(Str("text"), Str("yo"))>>)),
     PromptMessage("tool", Arr(<<PromptPart(Str("tool-result"), Undefined)>>)),
     PromptMessage("developer", Str("be brief"))}

\* User and system messages with every content shape.
RichPromptMessages ==
    {PromptMessage(role, Arr(ps)) :
        role \in {"user", "system"}, ps \in SeqsUpTo(PromptParts, MaxFragments)}
    \cup {PromptMessage("system", Str("")), PromptMessage("system", ObjStr("text", "hi"))}

PromptNeighbours == {<<>>} \cup {<<m>> : m \in PlainPromptMessages}

LettaEntry(p) ==
    /\ prompt = p
    /\ pidx = 1
    /\ mapped = <<>>
    /\ lstatus = "mapping"
    /\ lresult = <<>>
    /\ lerror = ""

InitLetta ==
    /\ \/ \E p \in SeqsUpTo(PlainPromptMessages, MaxPrompt) : LettaEntry(p)
       \/ \E before \in PromptNeighbours, m \in RichPromptMessages,
             after \in PromptNeighbours : LettaEntry(before \o <<m>> \o after)
    /\ \E strict \in BOOLEAN : Entry(<<>>, NoOptions, strict)

SpecLetta == InitLetta /\ [][NextLetta]_vars

---------------------------------------------------------------------------
(* Properties of convertToAiSdkMessage.                                    *)

\* the six event kinds
SixKinds ==
    {"system_message", "user_message", "assistant_message",
     "reasoning_message", "tool_call_message", "tool_return_message"}

\* the allow-list in effect, and the events it allows
Allow == AllowMessageTypeSet(options)
AllowedIndices == {i \in 1..Len(messages) : messages[i].messageType \in Allow}
AllowedIds == {messages[i].id : i \in AllowedIndices}
IndicesOf(id) == {i \in AllowedIndices : messages[i].id = id}

\* the call has ended, and how
Finished == status \in {"returned", "thrown"}
Outcome == IF status = "returned" THEN Returned(result) ELSE Threw(error)

RECURSIVE PartsFrom(_, _)
\* the parts the allowed events i.. carrying `id` contribute, concatenated
\* in input order
PartsFrom(i, id) ==
    IF i > Len(messages) THEN <<>>
    ELSE (IF i \in IndicesOf(id) THEN Contribution(messages[i]).parts.value ELSE <<>>)
            \o PartsFrom(i + 1, id)

Least(S) == CHOOSE i \in S : \A j \in S : i <= j
Greatest(S) == CHOOSE i \in S : \A j \in S : j <= i

\* C1: when the call returns, there is one UI message per distinct id
\* among the allowed events, no two of them share an id, and the parts of
\* each are the concatenation, in input order, of the parts its allowed
\* events contribute.
C1_GroupingInvariant ==
    status = "returned" =>
        /\ Len(result) = Cardinality(AllowedIds)
        /\ \A i, j \in 1..Len(result) : i # j => result[i].id # result[j].id
        /\ \A i \in 1..Len(result) : result[i].parts = PartsFrom(1, result[i].id)

\* C2: when the call returns, the UI messages are in the order in which
\* their ids first occur among the allowed events.
C2_FirstOccurrenceOrder ==
    status = "returned" =>
        \A i, j \in 1..Len(result) :
            i < j => Least(IndicesOf(result[i].id)) < Least(IndicesOf(result[j].id))

\* C8: a call without an allow-list (no options argument, or an options
\* object that does not set it) ends as the call with all six kinds
\* listed does: no event is filtered out.
C8_DefaultAllowList ==
    (Finished /\ ~options.hasAllow) =>
        Outcome = convertToAiSdkMessage(messages, OptionsAllow(SixKinds), entered)

\* position of a key in the output order
PositionIn(keys, k) == CHOOSE p \in 1..Len(keys) : keys[p] = k

\* C10: a run of the callback on an allowed event with id X appends that
\* event's parts to the builder for X and sets its role, and leaves the
\* builder of every other id, and its position in the output order, as it
\* was.
C10_PerEventFrame ==
    [][(status = "scanning" /\ idx' = idx + 1 /\ idx \in AllowedIndices) =>
        LET X == messages[idx].id
            c == Contribution(messages[idx])
            before == IF X \in DOMAIN sdkMessageObj THEN sdkMessageObj[X].parts ELSE <<>>
        IN  /\ X \in DOMAIN sdkMessageObj'
            /\ sdkMessageObj'[X].parts = before \o c.parts.value
            /\ sdkMessageObj'[X].role = c.role
            /\ \A Y \in DOMAIN sdkMessageObj \ {X} :
                    /\ sdkMessageObj'[Y] = sdkMessageObj[Y]
                    /\ PositionIn(OwnPropertyKeys(created'), Y)
                            = PositionIn(OwnPropertyKeys(created), Y)]_vars

\* the role the kind of an event stands for
RoleOfKind(type) ==
    CASE type = "system_message" -> "system"
      [] type = "user_message" -> "user"
      [] OTHER -> "assistant"

\* C3: when the call returns, the role of each UI message is the one of
\* the kind of the last allowed event carrying its id, and the message
\* holds the parts of all the allowed events carrying its id.
C3_RolePrecedence ==
    status = "returned" =>
        \A k \in 1..Len(result) :
            /\ result[k].role =
                  RoleOfKind(messages[Greatest(IndicesOf(result[k].id))].messageType)
            /\ result[k].parts = PartsFrom(1, result[k].id)

\* a user event, later a tool_return event with the same id: the message
\* is an assistant message with the parts of both
C3_Witness ==
    /\ status = "returned"
    /\ \E k \in 1..Len(result) : \E i, j \in IndicesOf(result[k].id) :
          /\ i < j
          /\ j = Greatest(IndicesOf(result[k].id))
          /\ messages[i].messageType = "user_message"
          /\ messages[j].messageType = "tool_return_message"
          /\ result[k].role = "assistant"
          /\ Len(result[k].parts) = Cardinality(IndicesOf(result[k].id))
          /\ result[k].parts[1].type = "text"

\* the input without the events the allow-list rejects
FilterAllowed(ms) == SelectSeq(ms, LAMBDA m : m.messageType \in Allow)

\* C4: events whose kind is not in the allow-list have no effect: at every
\* point of the scan the accumulator is the one the allowed events scanned
\* so far produce, the call ends as the call on the input without the
\* disallowed events does, and every id returned is the id of an allowed
\* event.
C4_AllowListFiltering ==
    /\ status = "scanning" =>
          Accumulator(sdkMessageObj, created, inherited)
            = ForEach(FilterAllowed(SubSeq(messages, 1, idx - 1)), Allow,
                      EmptyAccumulator(entered)).acc
    /\ Finished =>
          Outcome = convertToAiSdkMessage(FilterAllowed(messages), options, entered)
    /\ status = "returned" => \A k \in 1..Len(result) : result[k].id \in AllowedIds

\* an allowed and a disallowed event share an id, another id occurs in
\* disallowed events only, and the call returned the one message
C4_Witness ==
    /\ status = "returned"
    /\ Len(result) = 1
    /\ \E i \in AllowedIndices : \E j, k \in (1..Len(messages)) \ AllowedIndices :
          /\ messages[j].id = messages[i].id
          /\ messages[k].id \notin AllowedIds
          /\ result[1].id = messages[i].id
          /\ Len(result[1].parts) = 1

\* the fragment types the inbound transform supports
SupportedFragmentTypes == {Str("text"), Str("image_url"), Str("input_audio")}

HasUnsupportedFragment(m) ==
    /\ IsArray(m.content)
    /\ \E f \in 1..Len(m.content.a) : m.content.a[f].type \notin SupportedFragmentTypes

\* the message of the unsupported-content-type error
IsUnsupportedContentTypeError(msg) ==
    /\ StartsWith(msg, "Content type ")
    /\ Len(msg) >= Len("Content type  not supported")
    /\ SubSeq(msg, Len(msg) - Len(" not supported") + 1, Len(msg)) = " not supported"

\* C5 as stated: whenever the content of an event of the input holds a
\* fragment of an unsupported type, the call fails with the
\* unsupported-content-type error.
C5_AnyUnsupportedFragmentAborts ==
    (Finished /\ \E i \in 1..Len(messages) : HasUnsupportedFragment(messages[i])) =>
        status = "thrown" /\ IsUnsupportedContentTypeError(error)

\* the user and assistant events the allow-list allows whose content holds
\* a fragment of an unsupported type
UnsupportedIndices ==
    {i \in AllowedIndices :
        /\ messages[i].messageType \in {"user_message", "assistant_message"}
        /\ HasUnsupportedFragment(messages[i])}

\* the message of a TypeError the callback raises on the string that
\* Object.prototype holds as `role`
IsPropertyTypeError(msg) ==
    StartsWith(msg, "Cannot create property '") \/ msg = CannotReadPush

\* C5 amended: whenever the content of an allowed user or assistant event
\* holds a fragment of an unsupported type, the scan does not get past that
\* event and the call returns nothing: it fails at the first such event
\* with the unsupported-content-type error, unless it fails at or before
\* it with the TypeError of an event whose id is "role", met after a write
\* through the id "__proto__" left a role on Object.prototype.
C5_AllowedUnsupportedFragmentAborts ==
    /\ UnsupportedIndices # {} =>
          /\ status # "returned"
          /\ idx <= Least(UnsupportedIndices)
          /\ status = "thrown" =>
                /\ result = <<>>
                /\ \/ /\ idx = Least(UnsupportedIndices)
                      /\ IsUnsupportedContentTypeError(error)
                   \/ /\ idx \in AllowedIndices
                      /\ messages[idx].id = "role"
                      /\ ObjectPrototype(inherited).role # ""
                      /\ IsPropertyTypeError(error)

\* the call failed on an event with an unsupported fragment that has a
\* valid event before it and an event after it
C5_Witness ==
    /\ status = "thrown"
    /\ idx = 2
    /\ Len(messages) = 3
    /\ 1 \in AllowedIndices
    /\ UnsupportedIndices = {2}
    /\ IsUnsupportedContentTypeError(error)

\* the canonical JSON text of the return values that are no strings
CanonicalJson ==
    (ObjNum("code", 7) :> "{\"code\":7}") @@ (ObjStr("msg", "x") :> "{\"msg\":\"x\"}")
        @@ (EmptyObject :> "{}") @@ (Num(7) :> "7") @@ (Bool(FALSE) :> "false")
        @@ (Null :> "null")

\* the `parts` array the callback pushes on for id: the builder's, the
\* inherited function's own, or the one of Object.prototype
TargetParts(acc, id) ==
    LET kind == Resolve(acc, id)
    IN  CASE kind = "own" -> acc.obj[id].parts
          [] kind = "function" /\ acc.inh.objects[id].hasParts ->
                acc.inh.objects[id].parts
          [] kind = "undefined" -> <<>>
          [] OTHER -> ObjectPrototype(acc.inh).parts

\* C9: a run of the callback on an allowed tool_return event appends one
\* tool part: input the empty mapping, output the raw return value, state
\* output-error exactly when the status is "error", and errorText set
\* exactly then, to the value itself when it is a string and to its
\* canonical JSON text otherwise.  The one run that appends nothing is the
\* run on the id "role" that resolves to the string a write through
\* "__proto__" left on Object.prototype: it throws a TypeError.
C9_ToolReturnPart ==
    [][(status = "scanning" /\ idx \in AllowedIndices
            /\ messages[idx].messageType = "tool_return_message") =>
        LET m == messages[idx]
            acc == Accumulator(sdkMessageObj, created, inherited)
            before == TargetParts(acc, m.id)
            after == TargetParts(Accumulator(sdkMessageObj', created', inherited'), m.id)
            part == after[Len(after)]
            failed == m.status = Str("error")
        IN  \/ /\ idx' = idx + 1
               /\ status' = "scanning"
               /\ Len(after) = Len(before) + 1
               /\ SubSeq(after, 1, Len(before)) = before
               /\ StartsWith(part.type, "tool-")
               /\ part.input = EmptyObject
               /\ part.output = m.toolReturn
               /\ part.state = (IF failed THEN "output-error" ELSE "output-available")
               /\ (part.errorText # Undefined) <=> failed
               /\ failed =>
                     part.errorText =
                       (IF m.toolReturn.t = "string" THEN m.toolReturn
                        ELSE Str(CanonicalJson[m.toolReturn]))
            \/ /\ status' = "thrown"
               /\ m.id = "role"
               /\ Resolve(acc, m.id) = "string"
               /\ IsPropertyTypeError(error')]_vars

\* a tool_return event with status "error" and the value {code: 7} was
\* processed
C9_Witness ==
    \E id \in DOMAIN sdkMessageObj : \E p \in 1..Len(sdkMessageObj[id].parts) :
        LET part == sdkMessageObj[id].parts[p]
        IN  /\ part.type = "tool-search"
            /\ part.state = "output-error"
            /\ part.output = ObjNum("code", 7)
            /\ part.errorText = Str("{\"code\":7}")

---------------------------------------------------------------------------
(* Properties of convertToLettaMessage.                                    *)

\* the message of the unsupported-role error, by role
RoleErrorOf(role) ==
    CASE role = "assistant" -> "Assistant role is not supported for user input"
      [] role = "tool" -> "Tool role is not supported"
      [] OTHER -> "Message role is not supported"

RoleErrors == {RoleErrorOf(r) : r \in {"assistant", "tool", "other"}}

\* the part types that begin with the tool-part prefix
ToolPartTypes == {Str("tool-call"), Str("tool-result"), Str("tool-")}

\* the prompt messages with a role the platform does not accept
BadRoleIndices == {i \in 1..Len(prompt) : prompt[i].role \notin {"user", "system"}}

\* the user and system messages whose sequence content holds a part that
\* is neither a text part nor a tool part
BadContentIndices ==
    {i \in 1..Len(prompt) :
        /\ prompt[i].role \in {"user", "system"}
        /\ IsArray(prompt[i].content)
        /\ \E p \in 1..Len(prompt[i].content.a) :
              prompt[i].content.a[p].type \notin ({Str("text")} \cup ToolPartTypes)}

\* C6: a prompt with a message of role assistant, tool or any role but user
\* and system never returns: the map does not get past the first such
\* message, and with valid messages before it the call fails there with
\* the unsupported-role error of that role, returning nothing, wherever
\* the message is.  A call fails with an unsupported-role error only at a
\* message of such a role, so never on a prompt of user and system
\* messages.
C6_OutboundRoleRejection ==
    /\ BadRoleIndices # {} =>
          /\ lstatus # "returned"
          /\ pidx <= Least(BadRoleIndices)
          /\ (lstatus = "thrown"
                /\ \A i \in BadContentIndices : i > Least(BadRoleIndices)) =>
                /\ pidx = Least(BadRoleIndices)
                /\ lerror = RoleErrorOf(prompt[pidx].role)
                /\ lresult = <<>>
    /\ (lstatus = "thrown" /\ lerror \in RoleErrors) => pidx \in BadRoleIndices

\* the call failed with the unsupported-role error at a message that has a
\* valid message before it and a message after it
C6_Witness ==
    /\ lstatus = "thrown"
    /\ lerror = "Assistant role is not supported for user input"
    /\ pidx = 2
    /\ Len(prompt) = 3
    /\ BadRoleIndices = {2}
    /\ BadContentIndices = {}

\* the text parts of a part sequence, in order
TextFragments(parts) ==
    LET texts == SelectSeq(parts, LAMBDA part : part.type = Str("text"))
    IN  [i \in 1..Len(texts) |-> [type |-> "text", text |-> texts[i].text]]

\* what a prompt message becomes
Emitted(message) ==
    [role |-> message.role,
     content |-> IF IsArray(message.content)
                 THEN Arr(TextFragments(message.content.a))
                 ELSE message.content]

\* C7: every element the map has produced has the role of its prompt
\* message and, for a sequence content, exactly the text parts of the
\* input in input order (the tool parts dropped, no error); a returned
\* array has one element per prompt message in prompt order.  A user or
\* system message with a part of any other type is never got past: the
\* call that reaches it fails there with the unsupported-content-type
\* error, returning nothing, and only there with that error.
C7_OutboundContentTransform ==
    /\ Len(mapped) = pidx - 1
    /\ \A i \in 1..Len(mapped) : mapped[i] = Emitted(prompt[i])
    /\ lstatus = "returned" => lresult = [i \in 1..Len(prompt) |-> Emitted(prompt[i])]
    /\ BadContentIndices # {} =>
          /\ lstatus # "returned"
          /\ pidx <= Least(BadContentIndices)
          /\ (lstatus = "thrown"
                /\ \A i \in BadRoleIndices : i > Least(BadContentIndices)) =>
                /\ pidx = Least(BadContentIndices)
                /\ IsUnsupportedContentTypeError(lerror)
                /\ lresult = <<>>
    /\ (lstatus = "thrown" /\ IsUnsupportedContentTypeError(lerror)) =>
          pidx \in BadContentIndices

\* a returned prompt with a message whose tool part was dropped and whose
\* text part was kept
C7_Witness ==
    /\ lstatus = "returned"
    /\ \E i \in 1..Len(prompt) :
          /\ IsArray(prompt[i].content)
          /\ Len(prompt[i].content.a) = 2
          /\ prompt[i].content.a[1].type \in ToolPartTypes
          /\ lresult[i].content = Arr(<<[type |-> "text", text |-> Str("hi")]>>)

=============================================================================
